---- MODULE Spec2Model ----
(***************************************************************************)
(* The HTML and CSS recursive-descent parsers of src/src/html_parser.rs    *)
(* and src/src/css_parser.rs as one call-stack machine.  A state is the    *)
(* Parser struct (input, position), the stack of active function frames    *)
(* (function, program point, locals), the value the last finished call     *)
(* returned, and whether the parse is running, has returned or has         *)
(* panicked.  Characters are one-character strings; the input is a         *)
(* sequence of them and `position` is a BYTE offset into its UTF-8         *)
(* encoding, as in the source.  The frame of a function that loops also    *)
(* keeps `mark`, the offset at which its current iteration began (-1       *)
(* before the first): a history value the code does not hold, read only    *)
(* by the properties.                                                      *)
(***************************************************************************)
EXTENDS Integers, Sequences, FiniteSets, TLC

VARIABLES parser, input, position, stack, ret, status, result

vars == <<parser, input, position, stack, ret, status, result>>

(***************************************************************************)
(* Characters and their UTF-8 encoding                                     *)
(***************************************************************************)
\* U+00E9 (two bytes in UTF-8) and U+3042 (three bytes).
EAcute == "U+00E9"
HiraganaA == "U+3042"

LowerSeq == <<"a","b","c","d","e","f","g","h","i","j","k","l","m",
              "n","o","p","q","r","s","t","u","v","w","x","y","z">>
UpperSeq == <<"A","B","C","D","E","F","G","H","I","J","K","L","M",
              "N","O","P","Q","R","S","T","U","V","W","X","Y","Z">>
DigitSeq == <<"0","1","2","3","4","5","6","7","8","9">>

Range(s) == {s[i] : i \in DOMAIN s}
Lower == Range(LowerSeq)
Upper == Range(UpperSeq)
Digit == Range(DigitSeq)

\* char::len_utf8
Width(c) == IF c = EAcute THEN 2 ELSE IF c = HiraganaA THEN 3 ELSE 1

\* char::is_whitespace, on the characters the inputs use
is_whitespace(c) == c \in {" ", "\n", "\t"}

\* str::len: the length in bytes
RECURSIVE ByteLen(_)
ByteLen(s) == IF s = <<>> THEN 0 ELSE Width(Head(s)) + ByteLen(Tail(s))

\* the byte offset at which the i-th character starts (i = Len(s)+1: the end)
ByteOffset(s, i) == ByteLen(SubSeq(s, 1, i - 1))

\* str::is_char_boundary
IsCharBoundary(s, p) == \E i \in 1..(Len(s) + 1) : ByteOffset(s, i) = p

\* the index of the character that starts at byte offset p
CharIndex(s, p) == CHOOSE i \in 1..(Len(s) + 1) : ByteOffset(s, i) = p

\* &self.input[p..]: the characters from byte offset p on (p a boundary)
Rest(s, p) == SubSeq(s, CharIndex(s, p), Len(s))

(***************************************************************************)
(* The cursor: Parser::{next_char, starts_with, eof, consume_char}         *)
(***************************************************************************)
\* The marker a panicking read yields; no character equals it.
Panic == "PANIC"

eof(s, p) == p >= ByteLen(s)

\* self.input[self.position..].chars().next().unwrap(): the slice panics off a
\* character boundary, the unwrap panics on the empty rest
next_char(s, p) ==
  IF IsCharBoundary(s, p) /\ Rest(s, p) # <<>> THEN Head(Rest(s, p)) ELSE Panic

\* self.input[self.position..].starts_with(lit); the slice panics off a boundary
SlicePanics(s, p) == ~IsCharBoundary(s, p)

starts_with(s, p, lit) ==
  /\ IsCharBoundary(s, p)
  /\ Len(Rest(s, p)) >= Len(lit)
  /\ SubSeq(Rest(s, p), 1, Len(lit)) = lit

\* iterator.next().unwrap_or((1, ' ')).0: the byte index of the second
\* character of the rest, or 1 when the rest holds a single character
next_position(rest) == IF Len(rest) >= 2 THEN Width(rest[1]) ELSE 1

\* consume_char: the character read and the position after it
consume_char(s, p) ==
  IF next_char(s, p) = Panic
  THEN [ok |-> FALSE, char |-> Panic, position |-> p]
  ELSE [ok |-> TRUE, char |-> next_char(s, p),
        position |-> p + next_position(Rest(s, p))]

\* assert!(self.consume_char() == c)
expect_char(s, p, c) ==
  LET r == consume_char(s, p)
  IN  [ok |-> r.ok /\ r.char = c, position |-> r.position]

(***************************************************************************)
(* The call stack                                                          *)
(***************************************************************************)
\* no value yet: nothing has returned
NoValue == [none |-> TRUE]

Top == stack[Len(stack)]
Running(fn) == status = "running" /\ stack # <<>> /\ Top.fn = fn
At(fn, pc) == Running(fn) /\ Top.pc = pc

SetTop(f) == [stack EXCEPT ![Len(stack)] = f]
Pop == SubSeq(stack, 1, Len(stack) - 1)

\* the caller resumes at `pc` (with its locals as in `f`) once `callee` returns
Call(f, pc, callee) == Append(SetTop([f EXCEPT !.pc = pc]), callee)

\* a panic: the parse call ends without a value
Abort(p) ==
  /\ status' = "aborted"
  /\ position' = p
  /\ UNCHANGED <<parser, input, stack, ret, result>>

\* the top function returns v, the cursor at p
Return(v, p) ==
  /\ stack' = Pop
  /\ ret' = v
  /\ position' = p
  /\ UNCHANGED <<parser, input, status, result>>

\* the top function moves on with the stack st, the cursor at p
Step(st, p) ==
  /\ stack' = st
  /\ position' = p
  /\ UNCHANGED <<parser, input, status, ret, result>>

(***************************************************************************)
(* consume_while and the scanners built on it                              *)
(***************************************************************************)
\* parse_tag_name's closure
tag_name_char(c) == c \in Lower \cup Upper \cup Digit

\* css_parser.rs valid_identifier_char
valid_identifier_char(c) == c \in Lower \cup Upper \cup Digit \cup {"-", "_"}

\* parse_float's closure
float_char(c) == c \in Digit \cup {"."}

\* the closures handed to consume_while, by the function that builds them
Test(f, c) ==
  CASE f.test = "whitespace" -> is_whitespace(c)
    [] f.test = "tag_name"   -> tag_name_char(c)
    [] f.test = "text"       -> c # "<"
    [] f.test = "attr_value" -> c # f.quote
    [] f.test = "identifier" -> valid_identifier_char(c)
    [] f.test = "float"      -> float_char(c)

WhileFrame(test, quote) ==
  [fn |-> "consume_while", pc |-> "loop", test |-> test, quote |-> quote,
   result |-> <<>>, mark |-> -1]

\* consume_whitespace handed the wrong closure
consume_whitespace_wrong_test == WhileFrame("tag_name", "")
consume_whitespace == WhileFrame("whitespace", "")
parse_tag_name == WhileFrame("tag_name", "")
parse_identifier == WhileFrame("identifier", "")

\* One evaluation of the loop condition of consume_while, and the body or the
\* return that follows it.
consume_while ==
  /\ Running("consume_while")
  /\ LET f == Top
         c == next_char(input, position)
     IN  IF eof(input, position) THEN Return([chars |-> f.result], position)
         ELSE IF c = Panic THEN Abort(position)
         ELSE IF Test(f, c)
              THEN Step(SetTop([f EXCEPT !.result = Append(@, c),
                                         !.mark = position]),
                        consume_char(input, position).position)
              ELSE Return([chars |-> f.result], position)

(***************************************************************************)
(* dom.rs                                                                  *)
(***************************************************************************)
text(data) ==
  [children |-> <<>>, node_type |-> [kind |-> "Text", data |-> data]]

elem(name, attrs, children) ==
  [children |-> children,
   node_type |-> [kind |-> "Element", tag_name |-> name, attributes |-> attrs]]

\* HashMap::new and HashMap::insert
EmptyMap == [k \in {} |-> <<>>]
Insert(m, k, v) == [x \in DOMAIN m \cup {k} |-> IF x = k THEN v ELSE m[x]]

(***************************************************************************)
(* html_parser.rs                                                          *)
(***************************************************************************)
\* parse returning the first node whenever there is one
html_root_first(nodes) ==
  IF Len(nodes) >= 1 THEN nodes[1] ELSE elem(<<"h","t","m","l">>, EmptyMap, nodes)

\* parse: the root the top-level nodes are returned under
html_root(nodes) ==
  IF Len(nodes) = 1 THEN nodes[1] ELSE elem(<<"h","t","m","l">>, EmptyMap, nodes)

NodesFrame == [fn |-> "parse_nodes", pc |-> "ws", nodes |-> <<>>, mark |-> -1]

parse_nodes ==
  /\ Running("parse_nodes")
  /\ LET f == Top
     IN  \/ /\ f.pc = "ws"
            /\ Step(Call([f EXCEPT !.mark = position], "check",
                         consume_whitespace),
                    position)
         \/ /\ f.pc = "check"
            /\ IF SlicePanics(input, position) THEN Abort(position)
               ELSE IF eof(input, position)
                       \/ starts_with(input, position, <<"<", "/">>)
                    THEN Return([nodes |-> f.nodes], position)
                    ELSE Step(Call(f, "push",
                                   [fn |-> "parse_node", pc |-> "start"]),
                              position)
         \/ /\ f.pc = "push"
            /\ Step(SetTop([f EXCEPT !.nodes = Append(@, ret.node), !.pc = "ws"]),
                    position)

\* parse_node hands over to parse_element or parse_text, whose value is its own
parse_node ==
  /\ Running("parse_node")
  /\ LET c == next_char(input, position)
     IN  IF c = Panic THEN Abort(position)
         ELSE IF c = "<"
              THEN Step(SetTop([fn |-> "parse_element", pc |-> "start",
                                tag_name |-> <<>>, attrs |-> EmptyMap]),
                        position)
              ELSE Step(SetTop([fn |-> "parse_text", pc |-> "start"]), position)

parse_text ==
  /\ Running("parse_text")
  /\ \/ /\ Top.pc = "start"
        /\ Step(Call(Top, "data", WhileFrame("text", "")), position)
     \/ /\ Top.pc = "data"
        /\ Return([node |-> text(ret.chars)], position)

\* the closing tag compared with eq_ignore_ascii_case
closing_tag_matches_ignore_case(closing, opening) ==
  [i \in DOMAIN closing |->
     IF closing[i] \in Upper
     THEN LowerSeq[CHOOSE k \in DOMAIN UpperSeq : UpperSeq[k] = closing[i]]
     ELSE closing[i]]
  = [i \in DOMAIN opening |->
     IF opening[i] \in Upper
     THEN LowerSeq[CHOOSE k \in DOMAIN UpperSeq : UpperSeq[k] = opening[i]]
     ELSE opening[i]]

\* assert!(self.parse_tag_name() == tag_name)
closing_tag_matches(closing, opening) == closing = opening

parse_element ==
  /\ Running("parse_element")
  /\ LET f == Top
     IN  \/ /\ f.pc = "start"
            /\ LET lt == expect_char(input, position, "<")
               IN  IF ~lt.ok THEN Abort(lt.position)
                   ELSE Step(Call(f, "tag_name", parse_tag_name), lt.position)
         \/ /\ f.pc = "tag_name"
            /\ Step(Call([f EXCEPT !.tag_name = ret.chars], "attrs",
                         [fn |-> "parse_attributes", pc |-> "ws",
                          attributes |-> EmptyMap, mark |-> -1]),
                    position)
         \/ /\ f.pc = "attrs"
            /\ LET gt == expect_char(input, position, ">")
               IN  IF ~gt.ok THEN Abort(gt.position)
                   ELSE Step(Call([f EXCEPT !.attrs = ret.attrs], "children",
                                  NodesFrame),
                             gt.position)
         \/ /\ f.pc = "children"
            /\ LET lt == expect_char(input, position, "<")
                   sl == expect_char(input, lt.position, "/")
               IN  IF ~lt.ok THEN Abort(lt.position)
                   ELSE IF ~sl.ok THEN Abort(sl.position)
                   ELSE /\ stack' = Call([fn |-> f.fn, pc |-> f.pc,
                                          tag_name |-> f.tag_name,
                                          attrs |-> f.attrs, children |-> ret.nodes],
                                         "closing", parse_tag_name)
                        /\ position' = sl.position
                        /\ UNCHANGED <<parser, input, status, ret, result>>
         \/ /\ f.pc = "closing"
            /\ LET gt == expect_char(input, position, ">")
               IN  IF ~closing_tag_matches(ret.chars, f.tag_name) THEN Abort(position)
                   ELSE IF ~gt.ok THEN Abort(gt.position)
                   ELSE Return([node |-> elem(f.tag_name, f.attrs,
                                                  f.children)],
                               gt.position)

parse_attributes ==
  /\ Running("parse_attributes")
  /\ LET f == Top
         c == next_char(input, position)
     IN  \/ /\ f.pc = "ws"
            /\ Step(Call([f EXCEPT !.mark = position], "check",
                         consume_whitespace),
                    position)
         \/ /\ f.pc = "check"
            /\ IF c = Panic THEN Abort(position)
               ELSE IF c = ">" THEN Return([attrs |-> f.attributes], position)
               ELSE Step(Call(f, "insert",
                              [fn |-> "parse_attrs", pc |-> "start",
                               name |-> <<>>]),
                         position)
         \/ /\ f.pc = "insert"
            /\ Step(SetTop([f EXCEPT
                              !.attributes = Insert(@, ret.attr.name,
                                                    ret.attr.value),
                              !.pc = "ws"]),
                    position)

parse_attrs ==
  /\ Running("parse_attrs")
  /\ LET f == Top
     IN  \/ /\ f.pc = "start"
            /\ Step(Call(f, "name", parse_tag_name), position)
         \/ /\ f.pc = "name"
            /\ LET eq == expect_char(input, position, "=")
               IN  IF ~eq.ok THEN Abort(eq.position)
                   ELSE Step(Call([f EXCEPT !.name = ret.chars], "value",
                                  [fn |-> "parse_attr_value", pc |-> "start",
                                   quote |-> ""]),
                             eq.position)
         \/ /\ f.pc = "value"
            /\ Return([attr |-> [name |-> f.name, value |-> ret.chars]],
                      position)

parse_attr_value ==
  /\ Running("parse_attr_value")
  /\ LET f == Top
     IN  \/ /\ f.pc = "start"
            /\ LET q == consume_char(input, position)
               IN  IF ~q.ok \/ ~(q.char = "\"" \/ q.char = "/")
                   THEN Abort(q.position)
                   ELSE Step(Call([f EXCEPT !.quote = q.char], "value",
                                  WhileFrame("attr_value", q.char)),
                             q.position)
         \/ /\ f.pc = "value"
            /\ LET q == expect_char(input, position, f.quote)
               IN  IF ~q.ok THEN Abort(q.position)
                   ELSE Return([chars |-> ret.chars], q.position)

(***************************************************************************)
(* css_parser.rs: values                                                   *)
(***************************************************************************)
None == <<>>
Some(x) == <<x>>

\* u8::to_ascii_lowercase, character by character
IndexOf(seq, c) == CHOOSE i \in DOMAIN seq : seq[i] = c
char_to_ascii_lowercase(c) ==
  IF c \in Upper THEN LowerSeq[IndexOf(UpperSeq, c)] ELSE c
to_ascii_lowercase(s) == [i \in DOMAIN s |-> char_to_ascii_lowercase(s[i])]

\* parse_unit taking every identifier for a unit
unit_of_any(ident) == "Px"

\* parse_unit's match on the lower-cased identifier: the unit, or a panic
unit_of(ident) == IF ident = <<"p", "x">> THEN "Px" ELSE Panic

\* char::to_digit(16)
IsHexDigit(c) ==
  c \in Digit \cup {"a","b","c","d","e","f","A","B","C","D","E","F"}
HexValue(c) ==
  IF c \in Digit THEN IndexOf(DigitSeq, c) - 1
  ELSE IndexOf(LowerSeq, char_to_ascii_lowercase(c)) + 9

\* u8::from_str_radix(s, 16) on the characters of a two-byte slice: an
\* optional leading "+" and then digits; -1 stands for Err
from_str_radix_16(s) ==
  IF Len(s) # 2 THEN -1
  ELSE IF s[1] = "+"
       THEN IF IsHexDigit(s[2]) THEN HexValue(s[2]) ELSE -1
       ELSE IF IsHexDigit(s[1]) /\ IsHexDigit(s[2])
            THEN 16 * HexValue(s[1]) + HexValue(s[2])
            ELSE -1

\* &self.input[p..p + 2]: panics unless p and p + 2 are character boundaries
\* within the input
HexSliceOk(s, p) == IsCharBoundary(s, p) /\ IsCharBoundary(s, p + 2)
HexSlice(s, p) == SubSeq(s, CharIndex(s, p), CharIndex(s, p + 2) - 1)

\* str::parse::<f32> on a run of digits and "." that starts with a digit: it
\* is a number unless it holds two points.  The value is kept exactly, as
\* <<mantissa, number of decimals>> without trailing zero decimals.
Points(s) == Cardinality({i \in DOMAIN s : s[i] = "."})
RECURSIVE Mantissa(_)
Mantissa(s) ==
  IF s = <<>> THEN 0
  ELSE IF s[Len(s)] = "." THEN Mantissa(SubSeq(s, 1, Len(s) - 1))
  ELSE 10 * Mantissa(SubSeq(s, 1, Len(s) - 1)) + HexValue(s[Len(s)])
Decimals(s) ==
  IF Points(s) = 0 THEN 0 ELSE Len(s) - (CHOOSE i \in DOMAIN s : s[i] = ".")
RECURSIVE Normalize(_, _)
Normalize(m, d) ==
  IF d > 0 /\ m % 10 = 0 THEN Normalize(m \div 10, d - 1) ELSE <<m, d>>
parse_f32_ok(s) == s # <<>> /\ s # <<".">> /\ Points(s) <= 1
parse_f32(s) == Normalize(Mantissa(s), Decimals(s))

Keyword(s) == [kind |-> "Keyword", keyword |-> s]
Length(f, u) == [kind |-> "Length", value |-> f, unit |-> u]
ColorValue(r, g, b, a) ==
  [kind |-> "ColorValue", color |-> [r |-> r, g |-> g, b |-> b, a |-> a]]

\* the alpha channel parse_color sets
Opaque == 255

(***************************************************************************)
(* css_parser.rs: selectors                                                *)
(***************************************************************************)
\* Selector::specificity
specificity(sel) == <<Len(sel.id), Len(sel.class), Len(sel.tag_name)>>

\* Ord::cmp on Specificity: lexicographic
cmp(x, y) ==
  LET d == {i \in 1..3 : x[i] # y[i]}
  IN  IF d = {} THEN "Equal"
      ELSE LET i == CHOOSE k \in d : \A j \in d : k <= j
           IN  IF x[i] < y[i] THEN "Less" ELSE "Greater"

\* the closure of sort_by with its operands the other way round
compare_selectors_ascending(a, b) == cmp(specificity(a), specificity(b))

\* the closure of sort_by: |a, b| b.specificity().cmp(&a.specificity())
compare_selectors(a, b) == cmp(specificity(b), specificity(a))

\* slice::sort_by, a stable sort: each element in turn goes behind the
\* elements already placed that do not compare Greater than it
InsertSorted(sorted, x) ==
  LET k == Cardinality({i \in DOMAIN sorted :
                          compare_selectors(sorted[i], x) # "Greater"})
  IN  SubSeq(sorted, 1, k) \o <<x>> \o SubSeq(sorted, k + 1, Len(sorted))
RECURSIVE sort_by(_)
sort_by(s) ==
  IF s = <<>> THEN <<>>
  ELSE InsertSorted(sort_by(SubSeq(s, 1, Len(s) - 1)), s[Len(s)])

\* the match whose tag-name arm lost its guard, and so its break arm
simple_selector_arm_unguarded(c) ==
  IF c = "#" THEN "id"
  ELSE IF c = "." THEN "class"
  ELSE IF c = "*" THEN "universal"
  ELSE "tag_name"

\* the arm parse_simple_selector's match takes on the next character
simple_selector_arm(c) ==
  IF c = "#" THEN "id"
  ELSE IF c = "." THEN "class"
  ELSE IF c = "*" THEN "universal"
  ELSE IF valid_identifier_char(c) THEN "tag_name"
  ELSE "break"

parse_simple_selector ==
  /\ Running("parse_simple_selector")
  /\ LET f == Top
         c == next_char(input, position)
         arm == simple_selector_arm(c)
         after == consume_char(input, position).position
         g == [f EXCEPT !.mark = position]
     IN  \/ /\ f.pc = "loop"
            /\ IF eof(input, position)
               THEN Return([selector |-> f.selector], position)
               ELSE IF c = Panic THEN Abort(position)
               ELSE IF arm = "id"
                    THEN Step(Call(g, "id", parse_identifier), after)
               ELSE IF arm = "class"
                    THEN Step(Call(g, "class", parse_identifier), after)
               ELSE IF arm = "universal" THEN Step(SetTop(g), after)
               ELSE IF arm = "tag_name"
                    THEN Step(Call(g, "tag_name", parse_identifier), position)
               ELSE Return([selector |-> f.selector], position)
         \/ /\ f.pc = "id"
            /\ Step(SetTop([f EXCEPT !.selector.id = Some(ret.chars), !.pc = "loop"]),
                    position)
         \/ /\ f.pc = "class"
            /\ Step(SetTop([f EXCEPT !.selector.class = Append(@, ret.chars),
                                     !.pc = "loop"]),
                    position)
         \/ /\ f.pc = "tag_name"
            /\ Step(SetTop([f EXCEPT !.selector.tag_name = Some(ret.chars),
                                     !.pc = "loop"]),
                    position)

SimpleSelectorFrame ==
  [fn |-> "parse_simple_selector", pc |-> "loop",
   selector |-> [tag_name |-> None, id |-> None, class |-> <<>>],
   mark |-> -1]

parse_selectors ==
  /\ Running("parse_selectors")
  /\ LET f == Top
         c == next_char(input, position)
     IN  \/ /\ f.pc = "start"
            /\ Step(Call([f EXCEPT !.mark = position], "selector",
                         SimpleSelectorFrame),
                    position)
         \/ /\ f.pc = "selector"
            /\ Step(Call([f EXCEPT !.selectors = Append(@, ret.selector)], "match",
                         consume_whitespace),
                    position)
         \/ /\ f.pc = "match"
            /\ IF c = Panic THEN Abort(position)
               ELSE IF c = ","
                    THEN Step(Call(f, "start", consume_whitespace),
                              consume_char(input, position).position)
               ELSE IF c = "{"
                    THEN Return([selectors |-> sort_by(f.selectors)], position)
               ELSE Abort(position)

(***************************************************************************)
(* css_parser.rs: declarations                                             *)
(***************************************************************************)
parse_hex_pair ==
  /\ Running("parse_hex_pair")
  /\ IF ~HexSliceOk(input, position) THEN Abort(position)
     ELSE LET v == from_str_radix_16(HexSlice(input, position))
          IN  IF v < 0 THEN Abort(position + 2)
              ELSE Return([byte |-> v], position + 2)

HexPairFrame == [fn |-> "parse_hex_pair", pc |-> "start"]

parse_color ==
  /\ Running("parse_color")
  /\ LET f == Top
     IN  \/ /\ f.pc = "start"
            /\ LET hash == expect_char(input, position, "#")
               IN  IF ~hash.ok THEN Abort(hash.position)
                   ELSE Step(Call(f, "r", HexPairFrame), hash.position)
         \/ /\ f.pc = "r"
            /\ Step(Call([f EXCEPT !.r = ret.byte], "g", HexPairFrame), position)
         \/ /\ f.pc = "g"
            /\ Step(Call([f EXCEPT !.g = ret.byte], "b", HexPairFrame), position)
         \/ /\ f.pc = "b"
            /\ Return([value |-> ColorValue(f.r, f.g, ret.byte, Opaque)],
                      position)

parse_float ==
  /\ Running("parse_float")
  /\ \/ /\ Top.pc = "start"
        /\ Step(Call(Top, "parse", WhileFrame("float", "")), position)
     \/ /\ Top.pc = "parse"
        /\ IF parse_f32_ok(ret.chars)
           THEN Return([float |-> parse_f32(ret.chars)], position)
           ELSE Abort(position)

parse_unit ==
  /\ Running("parse_unit")
  /\ \/ /\ Top.pc = "start"
        /\ Step(Call(Top, "match", parse_identifier), position)
     \/ /\ Top.pc = "match"
        /\ LET u == unit_of(to_ascii_lowercase(ret.chars))
           IN  IF u = Panic THEN Abort(position)
               ELSE Return([unit |-> u], position)

parse_length ==
  /\ Running("parse_length")
  /\ LET f == Top
     IN  \/ /\ f.pc = "start"
            /\ Step(Call(f, "float", [fn |-> "parse_float", pc |-> "start"]),
                    position)
         \/ /\ f.pc = "float"
            /\ Step(Call([f EXCEPT !.value = ret.float], "unit",
                         [fn |-> "parse_unit", pc |-> "start"]),
                    position)
         \/ /\ f.pc = "unit"
            /\ Return([value |-> Length(f.value, ret.unit)], position)

\* parse_value hands over to parse_length or parse_color, or reads a keyword
parse_value ==
  /\ Running("parse_value")
  /\ LET f == Top
         c == next_char(input, position)
     IN  \/ /\ f.pc = "start"
            /\ IF c = Panic THEN Abort(position)
               ELSE IF c \in Digit
                    THEN Step(SetTop([fn |-> "parse_length", pc |-> "start",
                                      value |-> <<>>]),
                              position)
               ELSE IF c = "#"
                    THEN Step(SetTop([fn |-> "parse_color", pc |-> "start",
                                      r |-> 0, g |-> 0]),
                              position)
               ELSE Step(Call(f, "keyword", parse_identifier), position)
         \/ /\ f.pc = "keyword"
            /\ Return([value |-> Keyword(ret.chars)], position)

parse_declaration ==
  /\ Running("parse_declaration")
  /\ LET f == Top
     IN  \/ /\ f.pc = "start"
            /\ Step(Call(f, "name", parse_identifier), position)
         \/ /\ f.pc = "name"
            /\ Step(Call([f EXCEPT !.name = ret.chars], "colon",
                         consume_whitespace),
                    position)
         \/ /\ f.pc = "colon"
            /\ LET colon == expect_char(input, position, ":")
               IN  IF ~colon.ok THEN Abort(colon.position)
                   ELSE Step(Call(f, "value", consume_whitespace),
                             colon.position)
         \/ /\ f.pc = "value"
            /\ Step(Call(f, "parsed", [fn |-> "parse_value", pc |-> "start"]),
                    position)
         \/ /\ f.pc = "parsed"
            /\ Step(Call([fn |-> f.fn, pc |-> f.pc, name |-> f.name,
                          value |-> ret.value],
                         "semicolon", consume_whitespace),
                    position)
         \/ /\ f.pc = "semicolon"
            /\ LET semi == expect_char(input, position, ";")
               IN  IF ~semi.ok THEN Abort(semi.position)
                   ELSE Return([declaration |->
                                  [name |-> f.name, value |-> f.value]],
                               semi.position)

\* parse_declarations taking the end of the input for the end of the block
declarations_arm_eof_ends(c) ==
  IF c = Panic \/ c = "}" THEN "end" ELSE "declaration"

\* what parse_declarations does on the next character: the read panics, "}"
\* ends the block, anything else starts a declaration
declarations_arm(c) ==
  IF c = Panic THEN "panic" ELSE IF c = "}" THEN "end" ELSE "declaration"

parse_declarations ==
  /\ Running("parse_declarations")
  /\ LET f == Top
         arm == declarations_arm(next_char(input, position))
     IN  \/ /\ f.pc = "start"
            /\ LET brace == expect_char(input, position, "{")
               IN  IF ~brace.ok THEN Abort(brace.position)
                   ELSE Step(SetTop([f EXCEPT !.pc = "ws"]), brace.position)
         \/ /\ f.pc = "ws"
            /\ Step(Call([f EXCEPT !.mark = position], "check",
                         consume_whitespace),
                    position)
         \/ /\ f.pc = "check"
            /\ IF arm = "panic" THEN Abort(position)
               ELSE IF arm = "end"
                    THEN Return([declarations |-> f.declarations],
                                consume_char(input, position).position)
               ELSE Step(Call(f, "push",
                              [fn |-> "parse_declaration", pc |-> "start",
                               name |-> <<>>]),
                         position)
         \/ /\ f.pc = "push"
            /\ Step(SetTop([f EXCEPT !.declarations = Append(@, ret.declaration),
                                     !.pc = "ws"]),
                    position)

(***************************************************************************)
(* css_parser.rs: rules                                                    *)
(***************************************************************************)
parse_rule ==
  /\ Running("parse_rule")
  /\ LET f == Top
     IN  \/ /\ f.pc = "start"
            /\ Step(Call(f, "selectors",
                         [fn |-> "parse_selectors", pc |-> "start",
                          selectors |-> <<>>, mark |-> -1]),
                    position)
         \/ /\ f.pc = "selectors"
            /\ Step(Call([f EXCEPT !.selectors = ret.selectors], "declarations",
                         [fn |-> "parse_declarations", pc |-> "start",
                          declarations |-> <<>>, mark |-> -1]),
                    position)
         \/ /\ f.pc = "declarations"
            /\ Return([rule |-> [selectors |-> f.selectors,
                                 declarations |-> ret.declarations]],
                      position)

parse_rules ==
  /\ Running("parse_rules")
  /\ LET f == Top
     IN  \/ /\ f.pc = "ws"
            /\ Step(Call([f EXCEPT !.mark = position], "check",
                         consume_whitespace),
                    position)
         \/ /\ f.pc = "check"
            /\ IF eof(input, position) THEN Return([rules |-> f.rules], position)
               ELSE Step(Call(f, "push",
                              [fn |-> "parse_rule", pc |-> "start",
                               selectors |-> <<>>]),
                         position)
         \/ /\ f.pc = "push"
            /\ Step(SetTop([f EXCEPT !.rules = Append(@, ret.rule), !.pc = "ws"]),
                    position)

(***************************************************************************)
(* The inputs                                                              *)
(***************************************************************************)
MaxPieces == 3
MaxSelectors == 3

RECURSIVE Flatten(_)
Flatten(ss) == IF ss = <<>> THEN <<>> ELSE Head(ss) \o Flatten(Tail(ss))

SeqsUpTo(S, n) == UNION {[1..k -> S] : k \in 0..n}

\* HTML sources: up to MaxPieces of these, one after the other
HtmlPieces ==
  { <<"<","a",">">>, <<"<","/","a",">">>,
    <<"<","A",">">>, <<"<","/","A",">">>,
    <<"x">>, <<" ">>, <<EAcute>>,
    <<"<","a"," ","b","=","\"","x","\"",">">>,
    <<"<","a"," ","b","=","\"","x">>,
    <<"<","a"," ">> }

HtmlInputs == {Flatten(ps) : ps \in SeqsUpTo(HtmlPieces, MaxPieces)}

\* CSS sources: a rule whose selector list is up to MaxSelectors of these
\* pieces and whose block is empty, unopened or unclosed ...
SelectorPieces ==
  { <<"a",",">>, <<"b",",">>, <<".","c",",">>, <<"#","i",",">>, <<"*">>,
    <<"a",".","c">> }

SelectorTails == { <<>>, <<"{","}">>, <<"{">>, <<" ","{"," ","}"," ">> }

\* ... or one of these sources
CssSources ==
  { <<"a","{","}","b","{","}">>,
    <<"a","{","p",":","k",";","}">>,
    <<"a","{","p",":","k",";">>,
    <<"a","{","p",":","k">>,
    <<"a","{","p",":">>,
    <<"a","{","p",":","#","f","f","0","0","8","0",";","}">>,
    <<"a","{","p",":","#","F","f","0","0","0","A",";","}">>,
    <<"a","{","p",":","#","+","f","0","0","0","0",";","}">>,
    <<"a","{","p",":","#","f","f","0","0","g","0",";","}">>,
    <<"a","{","p",":","#","f","f","0","0",";","}">>,
    <<"a","{","p",":","#","f","f","0","0">>,
    <<"a","{","p",":","#","f","f","0","0",EAcute,";","}">>,
    <<"a","{","p",":","1","0","p","x",";","}">>,
    <<"a","{","p",":","1",".","5","P","x",";","}">>,
    <<"a","{","p",":","1","0","e","m",";","}">>,
    <<"a","{","p",":","1","0","p","x","x",";","}">>,
    <<"a","{","p",":","0",";","}">>,
    <<"a","{","p",":","1",".","2",".","3","p","x",";","}">>,
    <<"a","{","p",":","1","0","p","x",";","q",":","k",";","}">>,
    <<"a","{","p",":","k",";","}",HiraganaA>> }

CssInputs ==
  {Flatten(ps) \o t : ps \in SeqsUpTo(SelectorPieces, MaxSelectors),
                      t \in SelectorTails}
  \cup CssSources

(***************************************************************************)
(* The entry points: html_parser.rs parse and css_parser.rs parse          *)
(***************************************************************************)
\* Parser { position: 0, input: source }, and the first call on it
Enter(p, source, fn, callee) ==
  /\ parser' = p
  /\ input' = source
  /\ position' = 0
  /\ stack' = <<[fn |-> fn, pc |-> "called"], callee>>
  /\ status' = "running"
  /\ UNCHANGED <<ret, result>>

\* the call returns v
Leave(v) ==
  /\ result' = v
  /\ status' = "returned"
  /\ stack' = Pop
  /\ UNCHANGED <<parser, input, position, ret>>

html_parse ==
  \/ /\ status = "idle"
     /\ \E source \in HtmlInputs :
          Enter("html", source, "html_parse",
                NodesFrame)
  \/ /\ At("html_parse", "called")
     /\ Leave([tree |-> html_root(ret.nodes)])

css_parse ==
  \/ /\ status = "idle"
     /\ \E source \in CssInputs :
          Enter("css", source, "css_parse",
                [fn |-> "parse_rules", pc |-> "ws", rules |-> <<>>,
                 mark |-> -1])
  \/ /\ At("css_parse", "called")
     /\ Leave([stylesheet |-> [rules |-> ret.rules]])

(***************************************************************************)
(* The machine                                                             *)
(***************************************************************************)
\* before a parser is entered
Init ==
  /\ parser = "none"
  /\ input = <<>>
  /\ position = 0
  /\ stack = <<>>
  /\ ret = NoValue
  /\ status = "idle"
  /\ result = NoValue

Next ==
  \/ html_parse
  \/ parse_nodes
  \/ parse_node
  \/ parse_text
  \/ parse_element
  \/ parse_attributes
  \/ parse_attrs
  \/ parse_attr_value
  \/ consume_while
  \/ css_parse
  \/ parse_rules
  \/ parse_rule
  \/ parse_selectors
  \/ parse_simple_selector
  \/ parse_declarations
  \/ parse_declaration
  \/ parse_value
  \/ parse_length
  \/ parse_float
  \/ parse_unit
  \/ parse_color
  \/ parse_hex_pair

Spec == Init /\ [][Next]_vars

(***************************************************************************)
(* Properties                                                              *)
(***************************************************************************)
Returned(p) == parser = p /\ status = "returned"

\* the characters of the input that end at the cursor, n of them
Before(n) ==
  LET i == CharIndex(input, position) IN SubSeq(input, i - n, i - 1)

\* the nodes of a tree
RECURSIVE Nodes(_)
Nodes(n) == {n} \cup UNION {Nodes(n.children[i]) : i \in DOMAIN n.children}

\* specificity as the data model states it: ids present (0 or 1), class
\* names, tag name present (0 or 1)
SpecificityKey(sel) ==
  <<IF sel.id = None THEN 0 ELSE 1, Len(sel.class),
    IF sel.tag_name = None THEN 0 ELSE 1>>

KeyAtLeast(x, y) ==
  \/ x[1] > y[1]
  \/ x[1] = y[1] /\ x[2] > y[2]
  \/ x[1] = y[1] /\ x[2] = y[2] /\ x[3] >= y[3]

WithKey(s, k) == LET Has(x) == SpecificityKey(x) = k IN SelectSeq(s, Has)

StableSortOf(out, in) ==
  /\ Len(out) = Len(in)
  /\ \A i, j \in DOMAIN out :
       i < j => KeyAtLeast(SpecificityKey(out[i]), SpecificityKey(out[j]))
  /\ \A i \in DOMAIN in :
       WithKey(out, SpecificityKey(in[i])) = WithKey(in, SpecificityKey(in[i]))

\* C1: when parse_selectors meets the "{" that ends the list, the selectors it
\* returns are the selectors read, in source order within each specificity
\* and with specificity non-increasing from first to last.
C1_SelectorsStablySorted ==
  [][(At("parse_selectors", "match") /\ next_char(input, position) = "{")
       => StableSortOf(ret'.selectors, Top.selectors)]_vars

\* a returned list of four that starts with a selector the source does not
\* start with and holds two different selectors of equal specificity
C1_Witness ==
  /\ At("parse_rule", "selectors")
  /\ LET sels == ret.selectors
     IN  /\ Len(sels) >= 4
         /\ sels[1].id # None /\ input[1] # "#"
         /\ \E i, j \in DOMAIN sels :
              /\ i < j /\ sels[i] # sels[j]
              /\ SpecificityKey(sels[i]) = SpecificityKey(sels[j])

C3_ReturnsAtEndOfInput == Returned("html") => position = ByteLen(input)

\* C4: the cursor offset is always at a character boundary of the input or at
\* its end.
C4_OffsetOnCharBoundary == IsCharBoundary(input, position)

\* the program point at which each looping function tests for another round
LoopHead ==
  [consume_while |-> "loop", parse_nodes |-> "ws", parse_attributes |-> "ws",
   parse_rules |-> "ws", parse_selectors |-> "start",
   parse_declarations |-> "ws", parse_simple_selector |-> "loop"]

AtLoopHead ==
  /\ status = "running"
  /\ stack # <<>>
  /\ Top.fn \in DOMAIN LoopHead
  /\ Top.pc = LoopHead[Top.fn]

\* the elements whose "<" has been read and whose closing tag has not
OpenElements ==
  {i \in DOMAIN stack : stack[i].fn = "parse_element" /\ stack[i].pc # "start"}

\* C5: no loop goes round with the cursor where it was: whenever a loop is
\* back at its test, the offset is beyond the offset at which the round
\* before began; every element being parsed has had its "<" consumed;
\* and the offset never passes the end of the input: so neither the loops
\* nor the recursion can run on over a finite input.
C5_LoopsAdvance ==
  /\ AtLoopHead => position > Top.mark
  /\ Cardinality(OpenElements) <= position
  /\ position <= ByteLen(input)

\* the rule loop is back at its test behind the second rule of a stylesheet
C5_Witness ==
  /\ At("parse_rules", "ws")
  /\ Len(Top.rules) = 2
  /\ Top.mark > 0
  /\ position = ByteLen(input)

\* C6: when the name read from a closing tag differs from the name of the
\* element being closed, the parse aborts.
C6_MismatchedClosingTagAborts ==
  [][(At("parse_element", "closing") /\ ret.chars # Top.tag_name)
       => status' = "aborted"]_vars

\* an element nested in another was closed with its own name in the other case
C6_Witness ==
  /\ status = "aborted"
  /\ Top.fn = "parse_element" /\ Top.pc = "closing"
  /\ \E i \in 1..(Len(stack) - 1) : stack[i].fn = "parse_element"
  /\ ret.chars # Top.tag_name
  /\ to_ascii_lowercase(ret.chars) = to_ascii_lowercase(Top.tag_name)

OpenConstructs ==
  {"parse_element", "parse_attributes", "parse_attrs", "parse_attr_value",
   "parse_selectors", "parse_declarations", "parse_declaration"}

OpenConstruct == \E i \in DOMAIN stack : stack[i].fn \in OpenConstructs

AtOpenEnd == status = "running" /\ eof(input, position) /\ OpenConstruct

\* C7: once the input has ended inside an element, an opening tag, an
\* attribute value, a selector list, a declaration or a declaration block,
\* the parse cannot return: each step either aborts it or leaves it running
\* at the end of the input with the construct still open.
C7_UnterminatedAborts == [][AtOpenEnd => (status' = "aborted" \/ AtOpenEnd')]_vars

\* the input ended in a declaration block that had read a declaration
C7_Witness ==
  /\ status = "aborted"
  /\ eof(input, position)
  /\ Top.fn = "parse_declarations" /\ Top.pc = "check"
  /\ Top.declarations # <<>>

\* C8: a value that parsed to a Color is "#" and six hexadecimal digits, whose
\* pairs are its r, g and b, with alpha 255.
C8_ColorFromSixHexDigits ==
  (At("parse_declaration", "parsed") /\ ret.value.kind = "ColorValue") =>
    LET d == Before(6)
    IN  /\ Before(7)[1] = "#"
        /\ \A i \in 1..6 : IsHexDigit(d[i])
        /\ ret.value.color = [r |-> 16 * HexValue(d[1]) + HexValue(d[2]),
                        g |-> 16 * HexValue(d[3]) + HexValue(d[4]),
                        b |-> 16 * HexValue(d[5]) + HexValue(d[6]),
                        a |-> 255]

\* C9: a value that parsed to a Length ends in "px" in either case, directly
\* behind its digits and points and with no identifier character behind it,
\* and its unit is Px; a value that parsed to a Keyword does not start with a
\* digit.
C9_LengthUnitIsPx ==
  At("parse_declaration", "parsed") =>
    /\ ret.value.kind = "Length" =>
         /\ ret.value.unit = "Px"
         /\ Before(2)[1] \in {"p", "P"} /\ Before(2)[2] \in {"x", "X"}
         /\ Before(3)[1] \in Digit \cup {"."}
         /\ ~valid_identifier_char(next_char(input, position))
    /\ ret.value.kind = "Keyword" =>
         IF ret.value.keyword = <<>>
         THEN next_char(input, position) \notin Digit
         ELSE ret.value.keyword[1] \notin Digit

\* a length with a point and its unit in mixed case
C9_Witness ==
  /\ At("parse_declaration", "parsed")
  /\ ret.value.kind = "Length"
  /\ Before(2) = <<"P", "x">>
  /\ ret.value.value = <<15, 1>>

\* C10: parse_text starts on a character that is neither whitespace nor "<",
\* and every Text node of a returned tree is non-empty, holds no "<", does not
\* start with whitespace and has no children.
C10_TextNodes ==
  /\ At("parse_text", "start") =>
       /\ ~eof(input, position)
       /\ ~is_whitespace(next_char(input, position))
       /\ next_char(input, position) # "<"
  /\ Returned("html") =>
       \A n \in Nodes(result.tree) :
         n.node_type.kind = "Text" =>
           /\ n.node_type.data # <<>>
           /\ \A i \in DOMAIN n.node_type.data : n.node_type.data[i] # "<"
           /\ ~is_whitespace(n.node_type.data[1])
           /\ n.children = <<>>

\* a text node read behind leading whitespace
C10_Witness ==
  /\ Returned("html")
  /\ result.tree.node_type.kind = "Text"
  /\ is_whitespace(input[1])

====
